---- MODULE Spec2Model ----
(***************************************************************************)
(* Sticky-expanding scroll effect: the three variants of the repository.   *)
(*   "box"     src/composables/useStickyAnimation.ts  (useStickyBox,       *)
(*             document-offset geometry, onMounted/onUnmounted)            *)
(*   "simple"  src/unnamed/part_000  (useStickyExpansion, viewport         *)
(*             geometry, watchEffect, unthrottled scroll listener)         *)
(*   "refined" src/unnamed/part_001  (useStickyExpansion, viewport         *)
(*             geometry, resize re-anchor, lodash throttle(…, 100))        *)
(* Lengths are integers (pixels scaled down); the handlers only add,       *)
(* subtract, compare and take min/max, so the scale does not matter.       *)
(***************************************************************************)
EXTENDS Integers, Sequences, FiniteSets

\* ---------------------------------------------------------------- bounds
MaxScroll == 2
MinViewport == 3
MaxViewport == 5
MaxTop == 1
MaxBottom == 7
MaxEntries == 2
MaxTriggerCount == 2
MaxScan == 10

NoHeight == 0 - 1

Variants == {"box", "simple", "refined"}

\* The configurations the engine is constructed with (options object).
\* bottomOffset is read by the box variant only; its topOffsetPadding is
\* stickyPadding here.
Configs ==
  { [minHeight |-> 2, maxHeight |-> 4, headerHeight |-> 1, stickyPadding |-> 1, bottomOffset |-> 1],
    [minHeight |-> 3, maxHeight |-> 3, headerHeight |-> 0, stickyPadding |-> 1, bottomOffset |-> 0] }

ScrollOffsets == {0, 1, MaxScroll}
Viewports == {MinViewport, MaxViewport}
Tops == {0, MaxTop}
Bottoms == {MaxBottom - 5, MaxBottom - 2, MaxBottom}
OffsetTops == {1, 4, 6}
OffsetHeights == {2, 5}

\* The options' default values, and the pixel geometry the engine is driven
\* with when it is constructed with them.
DefaultConfig ==
  [minHeight |-> 640, maxHeight |-> 1000, headerHeight |-> 60, stickyPadding |-> 20,
   bottomOffset |-> 20]

DefaultScrollOffsets == {500, 700, 800}
DefaultViewports == {880, 1100}
DefaultTops == {180, 440}
DefaultBottoms == {950, 1200}
DefaultOffsetTops == {600, 800}
DefaultOffsetHeights == {900, 2000}

scrollOffsetsOf(c) == IF c = DefaultConfig THEN DefaultScrollOffsets ELSE ScrollOffsets
viewportsOf(c) == IF c = DefaultConfig THEN DefaultViewports ELSE Viewports
topsOf(c) == IF c = DefaultConfig THEN DefaultTops ELSE Tops
bottomsOf(c) == IF c = DefaultConfig THEN DefaultBottoms ELSE Bottoms
offsetTopsOf(c) == IF c = DefaultConfig THEN DefaultOffsetTops ELSE OffsetTops
offsetHeightsOf(c) == IF c = DefaultConfig THEN DefaultOffsetHeights ELSE OffsetHeights

VARIABLES
  variant,                \* which of the three composables this engine is
  cfg,                    \* the destructured options
  lifecycle,              \* "setup" | "active" | "stopped"
  stickyEl,               \* stickyElementRef.value is an element
  container,              \* containerRef.value is an element
  attached,               \* listeners registered and observer created
  observing,              \* the observer still observes the sticky element
  hasStartedExpanding,
  expansionStartScrollY,
  expansionStartHeight,
  scrollY,                \* window.scrollY
  innerHeight,            \* window.innerHeight
  elTop,                  \* stickyEl.getBoundingClientRect().top
  containerBottom,        \* container.getBoundingClientRect().bottom
  offsetTop,              \* parentContainer.offsetTop      (box)
  offsetHeight,           \* parentContainer.offsetHeight   (box)
  height,                 \* stickyEl.style.height, NoHeight when never written
  wrote,                  \* which handler wrote the height in the last step
  thrScroll,              \* state of throttle(handleScroll, 100)
  thrResize,              \* state of throttle(handleResize, 100)
  scrollBurst,            \* only scroll notifications since the engine state last changed
  triggerCount,           \* how often the trigger-time mutation was performed
  intersectingSeen,       \* an entry with isIntersecting = true has been delivered
  batchIntersecting,      \* entries with isIntersecting = true in the batch of the last step
  recording,              \* this behaviour records the handler runs below
  lastDriven,             \* scrollDrivenHeight of the last non-collapsing handleScroll run
  lastY,                  \* the scroll offset that run read
  reanchored,             \* handleResize re-anchored the baseline since that run
  continued,              \* the last step's handleScroll run read a larger offset than the
                          \* run before it, with no re-anchor in between
  overtaken               \* handleResize ran for a resize notification delivered while a
                          \* trailing handleScroll invocation was (and still is) pending

engine == <<hasStartedExpanding, expansionStartScrollY, expansionStartHeight>>
geometry == <<scrollY, innerHeight, elTop, containerBottom, offsetTop, offsetHeight>>
refs == <<stickyEl, container>>
subscription == <<attached, observing>>
throttles == <<thrScroll, thrResize>>
history == <<triggerCount, intersectingSeen>>
runs == <<lastDriven, lastY, reanchored>>
vars == <<variant, cfg, lifecycle, refs, subscription, engine, geometry, height,
          wrote, batchIntersecting, throttles, scrollBurst, history,
          recording, runs, continued, overtaken>>

Max(a, b) == IF a >= b THEN a ELSE b
Min(a, b) == IF a <= b THEN a ELSE b

\* ------------------------------------------------- refined (part_001)
stickyTriggerOffset(c) == c.headerHeight + c.stickyPadding

\* updateHeightToFitViewport that returns idealHeight unclamped.
updateHeightToFitViewportUnclamped(c, ih, top) == ih - top - c.stickyPadding

\* updateHeightToFitViewport: the height it writes and returns.
updateHeightToFitViewport(c, ih, top) ==
  LET idealHeight == ih - top - c.stickyPadding
  IN  Max(c.minHeight, Min(idealHeight, c.maxHeight))

\* scrollDrivenHeight that grows with the distance from the start offset in
\* either direction.
scrollDrivenHeightBothWays(y, startY, startH) ==
  startH + (IF y >= startY THEN y - startY ELSE startY - y)

\* scrollDrivenHeight that ignores the scroll delta.
scrollDrivenHeightNoDelta(y, startY, startH) == startH

scrollDrivenHeight(y, startY, startH) ==
  LET scrollDelta == y - startY
  IN  startH + Max(0, scrollDelta)

viewportLimitedHeight(c, ih, top) == ih - top - c.stickyPadding

\* potentialHeight that forgets the viewport limit.
potentialHeightScrollOnly(c, y, ih, top, startY, startH) ==
  scrollDrivenHeight(y, startY, startH)

potentialHeight(c, y, ih, top, startY, startH) ==
  Min(scrollDrivenHeight(y, startY, startH), viewportLimitedHeight(c, ih, top))

currentMaxHeight(c, y, ih, top, startY, startH) ==
  Min(potentialHeight(c, y, ih, top, startY, startH), c.maxHeight)

\* isCollapsing that never detects the container's end.
isCollapsingNever(c, y, ih, top, cb, startY, startH) == FALSE

isCollapsing(c, y, ih, top, cb, startY, startH) ==
  cb < currentMaxHeight(c, y, ih, top, startY, startH) + stickyTriggerOffset(c)

distancePastEnd(c, y, ih, top, cb, startY, startH) ==
  currentMaxHeight(c, y, ih, top, startY, startH) + stickyTriggerOffset(c) - cb

newHeight(c, y, ih, top, cb, startY, startH) ==
  IF isCollapsing(c, y, ih, top, cb, startY, startH)
    THEN currentMaxHeight(c, y, ih, top, startY, startH)
           - distancePastEnd(c, y, ih, top, cb, startY, startH)
    ELSE potentialHeight(c, y, ih, top, startY, startH)

\* finalHeight without the lower clamp.
finalHeightNoFloor(c, y, ih, top, cb, startY, startH) ==
  Min(newHeight(c, y, ih, top, cb, startY, startH), c.maxHeight)

finalHeight(c, y, ih, top, cb, startY, startH) ==
  Max(c.minHeight, Min(newHeight(c, y, ih, top, cb, startY, startH), c.maxHeight))

\* -------------------------------------------------- simple (part_000)
scrollDrivenHeightSimple(c, y, startY) ==
  LET scrollDelta == y - startY
  IN  c.minHeight + Max(0, scrollDelta)

potentialHeightSimple(c, y, ih, top, startY) ==
  Min(scrollDrivenHeightSimple(c, y, startY), ih - top - c.stickyPadding)

currentMaxHeightSimple(c, y, ih, top, startY) ==
  Min(potentialHeightSimple(c, y, ih, top, startY), c.maxHeight)

isCollapsingSimple(c, y, ih, top, cb, startY) ==
  cb < currentMaxHeightSimple(c, y, ih, top, startY) + stickyTriggerOffset(c)

distancePastEndSimple(c, y, ih, top, cb, startY) ==
  currentMaxHeightSimple(c, y, ih, top, startY) + stickyTriggerOffset(c) - cb - c.stickyPadding

newHeightSimple(c, y, ih, top, cb, startY) ==
  IF isCollapsingSimple(c, y, ih, top, cb, startY)
    THEN currentMaxHeightSimple(c, y, ih, top, startY)
           - distancePastEndSimple(c, y, ih, top, cb, startY)
    ELSE potentialHeightSimple(c, y, ih, top, startY)

finalHeightSimple(c, y, ih, top, cb, startY) ==
  Max(c.minHeight, Min(newHeightSimple(c, y, ih, top, cb, startY), c.maxHeight))

\* ------------------------------------- box (useStickyAnimation.ts)
topOffset(c) == c.headerHeight + c.stickyPadding

stickyStartPoint(c, oTop) == oTop - topOffset(c)

\* finalStickyHeight that forgets bottomOffset.
finalStickyHeightNoBottomOffset(c, oTop, startY) ==
  Min(c.minHeight + Max(0, stickyStartPoint(c, oTop) - startY), c.maxHeight)

finalStickyHeight(c, oTop, startY) ==
  LET finalScrollDelta == stickyStartPoint(c, oTop) - startY
      stickyHeightWhenLocked == c.minHeight + Max(0, finalScrollDelta - c.bottomOffset)
  IN  Min(stickyHeightWhenLocked, c.maxHeight)

stickyEndPoint(c, oTop, oHeight, startY) ==
  oTop + oHeight - finalStickyHeight(c, oTop, startY) - topOffset(c)

newHeightBox(c, y, oTop, oHeight, startY) ==
  IF y < stickyStartPoint(c, oTop)
    THEN c.minHeight + Max(0, (y - startY) - c.bottomOffset)
    ELSE IF y >= stickyStartPoint(c, oTop) /\ y < stickyEndPoint(c, oTop, oHeight, startY)
      THEN finalStickyHeight(c, oTop, startY)
      ELSE finalStickyHeight(c, oTop, startY) - (y - stickyEndPoint(c, oTop, oHeight, startY))

clampedHeight(c, y, oTop, oHeight, startY) ==
  Max(c.minHeight, Min(newHeightBox(c, y, oTop, oHeight, startY), c.maxHeight))

\* ------------------------------------------------------ handlers
\* The height handleScroll computes, by variant.
scrollHeight(v, c, y, ih, top, cb, oTop, oHeight, startY, startH) ==
  CASE v = "refined" -> finalHeight(c, y, ih, top, cb, startY, startH)
    [] v = "simple"  -> finalHeightSimple(c, y, ih, top, cb, startY)
    [] v = "box"     -> clampedHeight(c, y, oTop, oHeight, startY)

\* handleScroll that re-anchors the growth baseline the way handleResize does.
handleScrollReanchoring(y, ih, top, cb, oTop, oHeight) ==
  IF ~hasStartedExpanding \/ ~stickyEl \/ ~container
    THEN /\ UNCHANGED engine
         /\ height' = height
         /\ wrote' = "none"
    ELSE /\ height' = scrollHeight(variant, cfg, y, ih, top, cb, oTop, oHeight,
                                   expansionStartScrollY, expansionStartHeight)
         /\ expansionStartHeight' = height'
         /\ expansionStartScrollY' = y
         /\ UNCHANGED hasStartedExpanding
         /\ wrote' = "scroll"

\* handleScroll, run against the geometry (y, ih, top, cb, oTop, oHeight).
handleScroll(y, ih, top, cb, oTop, oHeight) ==
  /\ UNCHANGED engine
  /\ IF ~hasStartedExpanding \/ ~stickyEl \/ ~container
       THEN /\ height' = height
            /\ wrote' = "none"
       ELSE /\ height' = scrollHeight(variant, cfg, y, ih, top, cb, oTop, oHeight,
                                      expansionStartScrollY, expansionStartHeight)
            /\ wrote' = "scroll"

\* handleResize that keeps the old expansionStartScrollY.
handleResizeKeepScroll(y, ih, top) ==
  IF ~hasStartedExpanding \/ ~stickyEl
    THEN /\ UNCHANGED engine
         /\ height' = height
         /\ wrote' = "none"
    ELSE /\ height' = updateHeightToFitViewport(cfg, ih, top)
         /\ expansionStartHeight' = updateHeightToFitViewport(cfg, ih, top)
         /\ UNCHANGED <<hasStartedExpanding, expansionStartScrollY>>
         /\ wrote' = "resize"

\* handleResize that keeps the old expansionStartHeight.
handleResizeKeepHeight(y, ih, top) ==
  IF ~hasStartedExpanding \/ ~stickyEl
    THEN /\ UNCHANGED engine
         /\ height' = height
         /\ wrote' = "none"
    ELSE /\ height' = updateHeightToFitViewport(cfg, ih, top)
         /\ expansionStartScrollY' = y
         /\ UNCHANGED <<hasStartedExpanding, expansionStartHeight>>
         /\ wrote' = "resize"

\* handleResize (refined only), run against the geometry (y, ih, top).
handleResize(y, ih, top) ==
  IF ~hasStartedExpanding \/ ~stickyEl
    THEN /\ UNCHANGED engine
         /\ height' = height
         /\ wrote' = "none"
    ELSE /\ height' = updateHeightToFitViewport(cfg, ih, top)
         /\ expansionStartHeight' = updateHeightToFitViewport(cfg, ih, top)
         /\ expansionStartScrollY' = y
         /\ UNCHANGED hasStartedExpanding
         /\ wrote' = "resize"

\* The record of handler runs starts afresh (trigger, detach).
forgetRuns ==
  /\ lastDriven' = NoHeight
  /\ lastY' = 0
  /\ reanchored' = FALSE
  /\ continued' = FALSE
  /\ overtaken' = FALSE

\* Records the handleScroll run of this step, if there was one: what it
\* computed as scrollDrivenHeight from the geometry (y, ih, top, cb).  A
\* collapsing run ends the sequence of runs that are compared.
noteScrollRun(y, ih, top, cb) ==
  IF recording /\ attached /\ variant = "refined" /\ wrote' = "scroll"
    THEN IF isCollapsing(cfg, y, ih, top, cb, expansionStartScrollY, expansionStartHeight)
           THEN /\ lastDriven' = NoHeight
                /\ lastY' = 0
                /\ reanchored' = FALSE
                /\ continued' = FALSE
           ELSE /\ lastDriven' = scrollDrivenHeight(y, expansionStartScrollY,
                                                    expansionStartHeight)
                /\ lastY' = y
                /\ reanchored' = FALSE
                /\ continued' = (lastDriven # NoHeight /\ ~reanchored /\ y > lastY)
    ELSE /\ UNCHANGED runs
         /\ continued' = FALSE

\* Records the handleResize run of this step, if there was one.
noteResizeRun ==
  /\ IF recording /\ attached /\ wrote' = "resize"
       THEN /\ reanchored' = (lastDriven # NoHeight)
            /\ UNCHANGED <<lastDriven, lastY>>
       ELSE UNCHANGED runs
  /\ continued' = FALSE

\* observerEntry without the !hasStartedExpanding test.
observerEntryUnguarded(st, isIntersecting) ==
  IF isIntersecting
    THEN LET h == updateHeightToFitViewport(cfg, innerHeight, elTop)
             t == [st EXCEPT !.started = TRUE,
                             !.startY = scrollY,
                             !.observing = FALSE,
                             !.count = Min(st.count + 1, MaxTriggerCount)]
         IN  IF variant = "refined"
               THEN [t EXCEPT !.height = h, !.startH = h, !.wrote = "trigger"]
               ELSE t
    ELSE st

\* One entry of the IntersectionObserver callback, on the record st of what
\* the callback has done so far.
observerEntry(st, isIntersecting) ==
  IF isIntersecting /\ ~st.started
    THEN LET h == updateHeightToFitViewport(cfg, innerHeight, elTop)
             t == [st EXCEPT !.started = TRUE,
                             !.startY = scrollY,
                             !.observing = FALSE,
                             !.count = Min(st.count + 1, MaxTriggerCount)]
         IN  IF variant = "refined"
               THEN [t EXCEPT !.height = h, !.startH = h, !.wrote = "trigger"]
               ELSE t
    ELSE st

\* entries.forEach(...)
RECURSIVE observerCallback(_, _)
observerCallback(entries, st) ==
  IF entries = <<>>
    THEN st
    ELSE observerCallback(Tail(entries), observerEntry(st, Head(entries)))

\* lodash throttle(func, 100): leading and trailing edge.
\*   "idle"     no timer; the next call invokes func at once
\*   "waiting"  timer running, nothing to deliver when it expires
\*   "pending"  timer running, a trailing invocation is due when it expires
\*   "cooldown" no timer, but the last call is less than 100ms old: the next
\*              call starts a timer and is delivered on its trailing edge
throttleInvokesNow(t) == t = "idle"
\* A throttle without the trailing edge: calls inside the window are dropped.
throttleAfterCallNoTrailing(t) == IF t = "idle" THEN "waiting" ELSE t

throttleAfterCall(t) == IF t = "idle" THEN "waiting" ELSE "pending"
throttleInvokesOnTimer(t) == t = "pending"
throttleAfterTimer(t) == IF t = "pending" THEN "cooldown" ELSE "idle"

\* ------------------------------------------------------- lifecycle
Init ==
  /\ variant \in Variants
  /\ cfg \in Configs
  /\ lifecycle = IF variant = "box" THEN "setup" ELSE "active"
  /\ stickyEl = FALSE
  /\ container = FALSE
  /\ attached = FALSE
  /\ observing = FALSE
  /\ hasStartedExpanding = FALSE
  /\ expansionStartScrollY = 0
  /\ expansionStartHeight = cfg.minHeight
  /\ scrollY = 0
  /\ innerHeight = MaxViewport
  /\ elTop = MaxTop
  /\ containerBottom = MaxBottom
  /\ offsetTop = 4
  /\ offsetHeight = 5
  /\ height = NoHeight
  /\ wrote = "none"
  /\ thrScroll = "idle"
  /\ thrResize = "idle"
  /\ scrollBurst = FALSE
  /\ triggerCount = 0
  /\ intersectingSeen = FALSE
  /\ batchIntersecting = 0
  /\ recording = FALSE
  /\ lastDriven = NoHeight
  /\ lastY = 0
  /\ reanchored = FALSE
  /\ continued = FALSE
  /\ overtaken = FALSE

\* The engine constructed with the default options, on a page scrolled to 500.
InitDefault ==
  /\ variant \in Variants
  /\ cfg = DefaultConfig
  /\ lifecycle = IF variant = "box" THEN "setup" ELSE "active"
  /\ stickyEl = FALSE
  /\ container = FALSE
  /\ attached = FALSE
  /\ observing = FALSE
  /\ hasStartedExpanding = FALSE
  /\ expansionStartScrollY = 0
  /\ expansionStartHeight = cfg.minHeight
  /\ scrollY = 500
  /\ innerHeight = 1100
  /\ elTop = 440
  /\ containerBottom = 1200
  /\ offsetTop = 800
  /\ offsetHeight = 2000
  /\ height = NoHeight
  /\ wrote = "none"
  /\ thrScroll = "idle"
  /\ thrResize = "idle"
  /\ scrollBurst = FALSE
  /\ triggerCount = 0
  /\ intersectingSeen = FALSE
  /\ batchIntersecting = 0
  /\ recording = FALSE
  /\ lastDriven = NoHeight
  /\ lastY = 0
  /\ reanchored = FALSE
  /\ continued = FALSE
  /\ overtaken = FALSE

\* The host sets the template refs.  In the watchEffect variants the effect
\* re-runs: its cleanup detaches, its body attaches when both refs are set.
\* The box variant reads the refs in onMounted only.
RefChange(s, c) ==
  /\ batchIntersecting' = 0
  /\ <<s, c>> # <<stickyEl, container>>
  /\ stickyEl' = s
  /\ container' = c
  /\ IF variant # "box" /\ lifecycle = "active"
       THEN /\ attached' = (s /\ c)
            /\ observing' = (s /\ c)
       ELSE UNCHANGED subscription
  /\ height' = IF s = stickyEl THEN height ELSE NoHeight
  /\ wrote' = "none"
  /\ scrollBurst' = FALSE
  /\ forgetRuns
  /\ UNCHANGED <<variant, cfg, lifecycle, engine, geometry, throttles, history, recording>>

\* onMounted (box).
Mount ==
  /\ batchIntersecting' = 0
  /\ variant = "box"
  /\ lifecycle = "setup"
  /\ lifecycle' = "active"
  /\ attached' = (stickyEl /\ container)
  /\ observing' = (stickyEl /\ container)
  /\ wrote' = "none"
  /\ UNCHANGED <<variant, cfg, refs, engine, geometry, height, throttles,
                 scrollBurst, history, recording, runs, continued, overtaken>>

\* The owning scope stops: onCleanup (watchEffect variants), onUnmounted (box).
Unmount ==
  /\ batchIntersecting' = 0
  /\ lifecycle = "active"
  /\ lifecycle' = "stopped"
  /\ attached' = FALSE
  /\ observing' = FALSE
  /\ wrote' = "none"
  /\ scrollBurst' = FALSE
  /\ forgetRuns
  /\ UNCHANGED <<variant, cfg, refs, engine, geometry, height, throttles, history,
                 recording>>

\* The observer delivers a batch of entries for the sticky element.
Intersect(entries) ==
  /\ attached
  /\ observing
  /\ LET st0 == [started |-> hasStartedExpanding, startY |-> expansionStartScrollY,
                 startH |-> expansionStartHeight, observing |-> observing,
                 height |-> height, wrote |-> "none", count |-> triggerCount]
         st == observerCallback(entries, st0)
     IN  /\ hasStartedExpanding' = st.started
         /\ expansionStartScrollY' = st.startY
         /\ expansionStartHeight' = st.startH
         /\ observing' = st.observing
         /\ height' = st.height
         /\ wrote' = st.wrote
         /\ triggerCount' = st.count
  /\ intersectingSeen' = (intersectingSeen \/ \E i \in 1..Len(entries) : entries[i])
  /\ batchIntersecting' = Cardinality({i \in 1..Len(entries) : entries[i]})
  /\ scrollBurst' = FALSE
  /\ IF hasStartedExpanding' # hasStartedExpanding
       THEN forgetRuns
       ELSE UNCHANGED <<runs, overtaken>> /\ continued' = FALSE
  /\ UNCHANGED <<variant, cfg, lifecycle, refs, attached, geometry, throttles, recording>>

\* The document scrolls; the scroll listener, when registered, is called.
Scroll(y, top, cb) ==
  /\ batchIntersecting' = 0
  /\ variant = "box" => (top = elTop /\ cb = containerBottom)
  /\ scrollY' = y
  /\ elTop' = top
  /\ containerBottom' = cb
  /\ UNCHANGED <<innerHeight, offsetTop, offsetHeight>>
  /\ IF ~attached
       THEN UNCHANGED <<engine, height, throttles, scrollBurst>> /\ wrote' = "none"
       ELSE IF variant = "refined"
         THEN /\ thrScroll' = throttleAfterCall(thrScroll)
              /\ UNCHANGED thrResize
              /\ scrollBurst' = TRUE
              /\ IF throttleInvokesNow(thrScroll)
                   THEN handleScroll(y, innerHeight, top, cb, offsetTop, offsetHeight)
                   ELSE UNCHANGED <<engine, height>> /\ wrote' = "none"
         ELSE /\ handleScroll(y, innerHeight, top, cb, offsetTop, offsetHeight)
              /\ UNCHANGED <<throttles, scrollBurst>>
  /\ noteScrollRun(y, innerHeight, top, cb)
  /\ UNCHANGED <<variant, cfg, lifecycle, refs, subscription, history, recording, overtaken>>

\* The window is resized; the resize listener (refined only) is called.
Resize(ih, top, cb, oTop, oHeight) ==
  /\ batchIntersecting' = 0
  /\ IF variant = "box"
       THEN ih = innerHeight /\ top = elTop /\ cb = containerBottom
       ELSE oTop = offsetTop /\ oHeight = offsetHeight
  /\ innerHeight' = ih
  /\ elTop' = top
  /\ containerBottom' = cb
  /\ offsetTop' = oTop
  /\ offsetHeight' = oHeight
  /\ UNCHANGED scrollY
  /\ scrollBurst' = FALSE
  /\ IF attached /\ variant = "refined"
       THEN /\ thrResize' = throttleAfterCall(thrResize)
            /\ UNCHANGED thrScroll
            /\ IF throttleInvokesNow(thrResize)
                 THEN handleResize(scrollY, ih, top)
                 ELSE UNCHANGED <<engine, height>> /\ wrote' = "none"
       ELSE UNCHANGED <<engine, height, throttles>> /\ wrote' = "none"
  /\ noteResizeRun
  /\ overtaken' = (overtaken \/ (recording /\ attached /\ wrote' = "resize"
                                    /\ throttleInvokesOnTimer(thrScroll)))
  /\ UNCHANGED <<variant, cfg, lifecycle, refs, subscription, history, recording>>

\* The 100ms timer of throttledHandleScroll expires.
TimerScroll ==
  /\ batchIntersecting' = 0
  /\ thrScroll \in {"waiting", "pending"}
  /\ thrScroll' = throttleAfterTimer(thrScroll)
  /\ IF throttleInvokesOnTimer(thrScroll)
       THEN handleScroll(scrollY, innerHeight, elTop, containerBottom, offsetTop, offsetHeight)
       ELSE UNCHANGED <<engine, height>> /\ wrote' = "none"
  /\ noteScrollRun(scrollY, innerHeight, elTop, containerBottom)
  /\ overtaken' = FALSE
  /\ UNCHANGED <<variant, cfg, lifecycle, refs, subscription, geometry, thrResize,
                 scrollBurst, history, recording>>

\* The 100ms timer of throttledHandleResize expires.
TimerResize ==
  /\ batchIntersecting' = 0
  /\ thrResize \in {"waiting", "pending"}
  /\ thrResize' = throttleAfterTimer(thrResize)
  /\ IF throttleInvokesOnTimer(thrResize)
       THEN handleResize(scrollY, innerHeight, elTop) /\ scrollBurst' = FALSE
       ELSE UNCHANGED <<engine, height, scrollBurst>> /\ wrote' = "none"
  /\ noteResizeRun
  /\ UNCHANGED <<variant, cfg, lifecycle, refs, subscription, geometry, thrScroll, history,
                 recording, overtaken>>

\* 100ms pass after the last call of a throttled function whose timer is gone.
ElapseScroll ==
  /\ batchIntersecting' = 0
  /\ thrScroll = "cooldown"
  /\ thrScroll' = "idle"
  /\ wrote' = "none"
  /\ UNCHANGED <<variant, cfg, lifecycle, refs, subscription, engine, geometry, height,
                 thrResize, scrollBurst, history, recording, runs, overtaken>>
  /\ continued' = FALSE

ElapseResize ==
  /\ batchIntersecting' = 0
  /\ thrResize = "cooldown"
  /\ thrResize' = "idle"
  /\ wrote' = "none"
  /\ UNCHANGED <<variant, cfg, lifecycle, refs, subscription, engine, geometry, height,
                 thrScroll, scrollBurst, history, recording, runs, overtaken>>
  /\ continued' = FALSE

EntryBatches == UNION {[1..n -> BOOLEAN] : n \in 1..MaxEntries}

Next ==
  \/ \E s \in BOOLEAN, c \in BOOLEAN : RefChange(s, c)
  \/ Mount
  \/ Unmount
  \/ \E entries \in EntryBatches : Intersect(entries)
  \/ \E y \in scrollOffsetsOf(cfg), top \in topsOf(cfg), cb \in bottomsOf(cfg) :
        Scroll(y, top, cb)
  \/ \E ih \in viewportsOf(cfg), top \in topsOf(cfg), cb \in bottomsOf(cfg),
        oTop \in offsetTopsOf(cfg), oHeight \in offsetHeightsOf(cfg) :
        Resize(ih, top, cb, oTop, oHeight)
  \/ TimerScroll
  \/ TimerResize
  \/ ElapseScroll
  \/ ElapseResize

Spec == Init /\ [][Next]_vars

SpecDefault == InitDefault /\ [][Next]_vars

\* The refined engine with the record of its handler runs kept.  The record
\* is kept in these behaviours only: it multiplies the states, and the other
\* specifications do not read it.
InitRecorded ==
  /\ variant \in Variants
  /\ cfg \in Configs
  /\ lifecycle = IF variant = "box" THEN "setup" ELSE "active"
  /\ stickyEl = FALSE
  /\ container = FALSE
  /\ attached = FALSE
  /\ observing = FALSE
  /\ hasStartedExpanding = FALSE
  /\ expansionStartScrollY = 0
  /\ expansionStartHeight = cfg.minHeight
  /\ scrollY = 0
  /\ innerHeight = MaxViewport
  /\ elTop = MaxTop
  /\ containerBottom = MaxBottom
  /\ offsetTop = 4
  /\ offsetHeight = 5
  /\ height = NoHeight
  /\ wrote = "none"
  /\ thrScroll = "idle"
  /\ thrResize = "idle"
  /\ scrollBurst = FALSE
  /\ triggerCount = 0
  /\ intersectingSeen = FALSE
  /\ batchIntersecting = 0
  /\ recording = TRUE
  /\ lastDriven = NoHeight
  /\ lastY = 0
  /\ reanchored = FALSE
  /\ continued = FALSE
  /\ overtaken = FALSE

SpecRecorded == InitRecorded /\ [][Next]_vars

\* Timers that were started do expire.
SpecFair == Spec /\ WF_vars(TimerScroll) /\ WF_vars(TimerResize)

\* ---------------------------------------------------------- claims
viewportVariant == variant \in {"simple", "refined"}

\* The raw (unclamped) height handleScroll computes in the current state.
rawHeightNow ==
  CASE variant = "refined" -> newHeight(cfg, scrollY, innerHeight, elTop, containerBottom,
                                        expansionStartScrollY, expansionStartHeight)
    [] variant = "simple"  -> newHeightSimple(cfg, scrollY, innerHeight, elTop,
                                              containerBottom, expansionStartScrollY)
    [] variant = "box"     -> newHeightBox(cfg, scrollY, offsetTop, offsetHeight,
                                           expansionStartScrollY)

\* C1: every height a handler writes (handleScroll of the three variants,
\* updateHeightToFitViewport at trigger time and on resize) lies in
\* [minHeight, maxHeight], for configurations with 0 <= minHeight <= maxHeight.
C1_ClampInvariant ==
  (wrote # "none" /\ 0 <= cfg.minHeight /\ cfg.minHeight <= cfg.maxHeight)
    => (cfg.minHeight <= height /\ height <= cfg.maxHeight)

\* handleScroll wrote a height whose raw value was below minHeight.
C1_Witness ==
  /\ wrote = "scroll"
  /\ rawHeightNow < cfg.minHeight
  /\ height = cfg.minHeight

\* C2: once the engine is detached no handler writes a height, even when a
\* throttle timer that was pending at detach time expires.
C2_NoWriteWhileDetached ==
  (variant = "refined" /\ wrote # "none") => attached

\* The trigger-time mutation has been performed once iff an intersecting
\* entry has been delivered, and it records the current scroll offset and (in
\* the refined variant) the viewport-fit height it wrote.
C3_Performed ==
  /\ triggerCount = (IF intersectingSeen THEN 1 ELSE 0)
  /\ hasStartedExpanding <=> intersectingSeen
  /\ (wrote = "trigger")
       => /\ batchIntersecting >= 1
          /\ expansionStartScrollY = scrollY
          /\ expansionStartHeight = height
          /\ height = updateHeightToFitViewport(cfg, innerHeight, elTop)

\* C3: the trigger-time mutation is performed on the first entry with
\* isIntersecting = true and on none of the later ones: intersecting entries
\* delivered after the trigger change neither the engine state nor the height.
C3_TriggerOnce ==
  /\ []C3_Performed
  /\ [][(hasStartedExpanding /\ batchIntersecting' >= 1)
          => (engine' = engine /\ height' = height /\ wrote' = "none")]_vars

\* Two intersecting entries were delivered, one trigger was performed.
C3_Witness ==
  /\ batchIntersecting >= 2
  /\ triggerCount = 1
  /\ hasStartedExpanding
  /\ expansionStartScrollY = scrollY
  /\ scrollY > 0

\* C4: hasStartedExpanding is false at the start of every attach cycle, and
\* within a cycle it never reverts from true to false.
C4_FreshCycle ==
  [][ /\ (~attached /\ attached') => ~hasStartedExpanding'
      /\ (attached /\ attached' /\ hasStartedExpanding) => hasStartedExpanding' ]_vars

\* C5: handleScroll and handleResize write nothing while the trigger has not
\* fired or while the sticky element ref or the container ref is absent.
C5_NoOpGuard ==
  (wrote \in {"scroll", "resize"}) => (hasStartedExpanding /\ stickyEl /\ container)

unthrottledHeight ==
  finalHeight(cfg, scrollY, innerHeight, elTop, containerBottom,
              expansionStartScrollY, expansionStartHeight)

C7_Settled ==
  (variant = "refined" /\ attached /\ hasStartedExpanding /\ scrollBurst
     /\ thrScroll # "pending")
    => height = unthrottledHeight

\* C7: after a burst of scroll notifications a pending trailing invocation is
\* eventually delivered, and whenever none is pending the height is the one
\* an unthrottled handleScroll computes from the final offset and geometry.
C7_Convergence ==
  /\ []C7_Settled
  /\ (thrScroll = "pending") ~> (thrScroll # "pending")

\* A trailing invocation of handleScroll was delivered and wrote the height.
C7_Witness ==
  /\ variant = "refined"
  /\ attached
  /\ scrollBurst
  /\ thrScroll = "cooldown"
  /\ wrote = "scroll"
  /\ height > cfg.minHeight

ClampTo(x, lo, hi) == IF x < lo THEN lo ELSE IF x > hi THEN hi ELSE x

\* C8: handleResize after the trigger writes
\* clamp(viewportHeight - elementTop - stickyPadding, minHeight, maxHeight),
\* sets expansionStartHeight to it and expansionStartScrollY to the current
\* scroll offset, and leaves hasStartedExpanding true.
C8_ResizeReanchor ==
  (wrote = "resize")
    => /\ height = ClampTo(innerHeight - elTop - cfg.stickyPadding,
                           cfg.minHeight, cfg.maxHeight)
       /\ expansionStartHeight = height
       /\ expansionStartScrollY = scrollY
       /\ hasStartedExpanding

\* handleResize re-anchored at a non-zero scroll offset to an unclamped height.
C8_Witness ==
  /\ wrote = "resize"
  /\ scrollY > 0
  /\ expansionStartScrollY = scrollY
  /\ height = innerHeight - elTop - cfg.stickyPadding
  /\ height > cfg.minHeight
  /\ height < cfg.maxHeight

C10_ThreeTermLimit ==
  (wrote = "scroll" /\ variant = "refined")
    => /\ height <= scrollDrivenHeight(scrollY, expansionStartScrollY, expansionStartHeight)
       /\ height <= viewportLimitedHeight(cfg, innerHeight, elTop)
       /\ height <= cfg.maxHeight

\* C10 amended: the viewport term binds only down to minHeight.
C10_ThreeTermLimitAboveFloor ==
  (wrote = "scroll" /\ variant = "refined")
    => /\ height <= scrollDrivenHeight(scrollY, expansionStartScrollY, expansionStartHeight)
       /\ height <= Max(cfg.minHeight, viewportLimitedHeight(cfg, innerHeight, elTop))
       /\ height <= cfg.maxHeight

\* The viewport limit was the binding term.
C10_Witness ==
  /\ wrote = "scroll"
  /\ variant = "refined"
  /\ viewportLimitedHeight(cfg, innerHeight, elTop)
       < scrollDrivenHeight(scrollY, expansionStartScrollY, expansionStartHeight)
  /\ viewportLimitedHeight(cfg, innerHeight, elTop) < cfg.maxHeight
  /\ height = viewportLimitedHeight(cfg, innerHeight, elTop)
  /\ height > cfg.minHeight

\* ------------------------------------------ collapse boundary (C11)
\* currentMaxHeight as handleScroll of the running variant computes it.
currentMaxHeightNow ==
  IF variant = "simple"
    THEN currentMaxHeightSimple(cfg, scrollY, innerHeight, elTop, expansionStartScrollY)
    ELSE currentMaxHeight(cfg, scrollY, innerHeight, elTop,
                          expansionStartScrollY, expansionStartHeight)

\* The raw height handleScroll computes when the container's bottom is at cb
\* and everything else is as in the current state.
rawHeightAt(cb) ==
  IF variant = "simple"
    THEN newHeightSimple(cfg, scrollY, innerHeight, elTop, cb, expansionStartScrollY)
    ELSE newHeight(cfg, scrollY, innerHeight, elTop, cb,
                   expansionStartScrollY, expansionStartHeight)

\* The value of the collapsing branch's expression with the container's
\* bottom at cb.
collapsingHeightAt(cb) ==
  IF variant = "simple"
    THEN currentMaxHeightNow
           - distancePastEndSimple(cfg, scrollY, innerHeight, elTop, cb, expansionStartScrollY)
    ELSE currentMaxHeightNow
           - distancePastEnd(cfg, scrollY, innerHeight, elTop, cb,
                             expansionStartScrollY, expansionStartHeight)

collapseBoundary == currentMaxHeightNow + stickyTriggerOffset(cfg)

\* C11: at containerBottom = currentMaxHeight + triggerOffset the branch
\* handleScroll takes and the collapsing branch's expression both give
\* currentMaxHeight, and one unit below the boundary the raw height is one
\* unit less, in the simple and in the refined variant.  The values at the
\* boundary are compared under the maxHeight ceiling, where the non-collapsing
\* branch's potentialHeight and currentMaxHeight are the same number.
C11_CollapseSmooth ==
  (viewportVariant /\ hasStartedExpanding)
    => /\ Min(rawHeightAt(collapseBoundary), cfg.maxHeight) = currentMaxHeightNow
       /\ Min(collapsingHeightAt(collapseBoundary), cfg.maxHeight) = currentMaxHeightNow
       /\ rawHeightAt(collapseBoundary - 1) = currentMaxHeightNow - 1

\* ------------------------------------------ default options (C12, C13)
\* The last step performed the trigger-time mutation.
justTriggered == batchIntersecting >= 1 /\ hasStartedExpanding /\ ~observing

\* C12 as stated (scenario A): with the default options, a trigger at scroll
\* offset 500 followed by a scroll notification handled at offset 700, with
\* viewportLimitedHeight >= 840 and containerBottom >= 840 + 80, writes 840.
C12_ScenarioA ==
  [][ ( /\ viewportVariant
        /\ cfg = DefaultConfig
        /\ justTriggered
        /\ scrollY = 500
        /\ wrote' = "scroll"
        /\ scrollY' = 700
        /\ viewportLimitedHeight(cfg, innerHeight', elTop') >= 840
        /\ containerBottom' >= 840 + 80 )
      => height' = 840 ]_vars

\* C12 amended: the same, for a trigger that started from the height 640
\* (always so in the simple variant; in the refined variant when the
\* viewport-fit height written at trigger time is 640).
C12_ScenarioAFromMinHeight ==
  [][ ( /\ viewportVariant
        /\ cfg = DefaultConfig
        /\ justTriggered
        /\ scrollY = 500
        /\ expansionStartHeight = 640
        /\ wrote' = "scroll"
        /\ scrollY' = 700
        /\ viewportLimitedHeight(cfg, innerHeight', elTop') >= 840
        /\ containerBottom' >= 840 + 80 )
      => height' = 840 ]_vars

\* The refined handleScroll wrote 840 at offset 700 from a baseline of 640
\* recorded at offset 500.
C12_Witness ==
  /\ variant = "refined"
  /\ cfg = DefaultConfig
  /\ wrote = "scroll"
  /\ expansionStartScrollY = 500
  /\ expansionStartHeight = 640
  /\ scrollY = 700
  /\ viewportLimitedHeight(cfg, innerHeight, elTop) >= 840
  /\ containerBottom >= 840 + 80
  /\ height = 840

\* handleScroll of the running variant takes the collapsing branch.
isCollapsingNow == containerBottom < collapseBoundary

\* C13 (scenario C): with the default options a handleScroll run with
\* currentMaxHeight = 900 and containerBottom = 950 takes the collapsing
\* branch and writes 870 (distancePastEnd = 30); in general the collapsing
\* branch's raw height is
\* currentMaxHeight - (currentMaxHeight + triggerOffset - containerBottom).
C13_ScenarioC ==
  (wrote = "scroll" /\ viewportVariant)
    => /\ (cfg = DefaultConfig /\ currentMaxHeightNow = 900 /\ containerBottom = 950)
            => (isCollapsingNow /\ height = 870)
       /\ isCollapsingNow
            => rawHeightNow = currentMaxHeightNow
                 - (currentMaxHeightNow + stickyTriggerOffset(cfg) - containerBottom)

\* ------------------------------------------- sequences of runs (C14, C17)
\* The step is a non-collapsing handleScroll run of the attached refined
\* engine that follows an earlier such run, at an offset that is not smaller.
nextScrollRun ==
  /\ variant = "refined"
  /\ attached
  /\ wrote' = "scroll"
  /\ lastDriven # NoHeight
  /\ lastDriven' # NoHeight
  /\ scrollY' >= lastY

\* C14 as stated: from one handled scroll notification to the next, with a
\* non-decreasing scroll offset and no collapse, the scrollDrivenHeight that
\* handleScroll computes does not decrease.
C14_MonotonicGrowth ==
  [][nextScrollRun => lastDriven' >= lastDriven]_vars

\* C14 amended: the same, between two handled scroll notifications with no
\* handleResize re-anchor between them.
C14_MonotonicBetweenReanchors ==
  [][(nextScrollRun /\ ~reanchored) => lastDriven' >= lastDriven]_vars

\* A run at a larger offset followed an earlier run with no re-anchor in
\* between, and computed a scrollDrivenHeight above the baseline.
C14_Witness ==
  /\ variant = "refined"
  /\ continued
  /\ wrote = "scroll"
  /\ lastY > expansionStartScrollY
  /\ lastDriven = expansionStartHeight + (lastY - expansionStartScrollY)

\* C17: the trailing handleScroll run, caused by scroll notifications that
\* were deferred, never executes after the handleResize run of a resize
\* notification that was delivered after them.
C17_DeliveryOrder ==
  [][(attached /\ throttleInvokesOnTimer(thrScroll) /\ thrScroll' # thrScroll
        /\ wrote' = "scroll")
       => ~overtaken]_vars

\* --------------------------------------------- resize, then scroll (C15)
\* The step is a handleScroll run that directly follows a handleResize run,
\* at the offset and geometry handleResize read.
scrollRightAfterResize ==
  /\ wrote = "resize"
  /\ wrote' = "scroll"
  /\ geometry' = geometry

\* C15 as stated: a scroll notification handled right after handleResize
\* re-anchored, at the same offset and geometry, writes the height
\* handleResize wrote.
C15_PostResizeConsistency ==
  [][scrollRightAfterResize => height' = height]_vars

\* C15 amended: it writes that height unless the container's end binds
\* (containerBottom < height + triggerOffset); then it writes
\* max(minHeight, containerBottom - triggerOffset).
C15_PostResizeUnlessCollapsing ==
  [][scrollRightAfterResize
       => height' = (IF containerBottom < height + stickyTriggerOffset(cfg)
                       THEN Max(cfg.minHeight, containerBottom - stickyTriggerOffset(cfg))
                       ELSE height)]_vars

\* handleScroll wrote the viewport-fit height from a baseline re-anchored at
\* the current, non-zero offset, while the resize throttle's window is open.
C15_Witness ==
  /\ variant = "refined"
  /\ wrote = "scroll"
  /\ thrResize = "waiting"
  /\ scrollY > 0
  /\ expansionStartScrollY = scrollY
  /\ expansionStartHeight = height
  /\ height = updateHeightToFitViewport(cfg, innerHeight, elTop)
  /\ height > cfg.minHeight
  /\ ~isCollapsingNow

\* ------------------------------------------- simple against refined (C16)
\* C16: on the inputs of the current state, handleScroll of the simple
\* variant computes the height that handleScroll of the refined variant
\* computes with expansionStartHeight = minHeight.
C16_SimpleIsRefinedFromMinHeight ==
  hasStartedExpanding
    => finalHeightSimple(cfg, scrollY, innerHeight, elTop, containerBottom,
                         expansionStartScrollY)
         = finalHeight(cfg, scrollY, innerHeight, elTop, containerBottom,
                       expansionStartScrollY, cfg.minHeight)

\* ------------------------------------------------ growth baseline (C18)
\* C18: in the refined variant expansionStartHeight stays within
\* [minHeight, maxHeight] in every reachable state, for configurations with
\* minHeight <= maxHeight.
C18_BaselineInRange ==
  (variant = "refined" /\ cfg.minHeight <= cfg.maxHeight)
    => (cfg.minHeight <= expansionStartHeight /\ expansionStartHeight <= cfg.maxHeight)

\* handleResize re-anchored with a viewport that leaves less than minHeight.
C18_Witness ==
  /\ variant = "refined"
  /\ wrote = "resize"
  /\ innerHeight - elTop - cfg.stickyPadding < cfg.minHeight
  /\ expansionStartHeight = cfg.minHeight
  /\ expansionStartScrollY > 0

\* ------------------------------------------------- box, no jump (C19)
\* The scroll offsets the box variant's height is compared at.
ScanOffsets == (0 - MaxScan)..MaxScan

\* The height the box variant's handleScroll writes at scroll offset s, with
\* the container and the start offset of the current state.
boxHeightAt(s) == clampedHeight(cfg, s, offsetTop, offsetHeight, expansionStartScrollY)

boxStepsByOne ==
  \A s \in ScanOffsets :
    /\ boxHeightAt(s + 1) - boxHeightAt(s) <= 1
    /\ boxHeightAt(s) - boxHeightAt(s + 1) <= 1

\* C19 as stated: the heights the box variant writes at offsets s and s + 1
\* differ by at most 1, also when stickyEndPoint <= stickyStartPoint.
C19_NoJump ==
  (variant = "box" /\ hasStartedExpanding /\ cfg.minHeight <= cfg.maxHeight)
    => boxStepsByOne

\* C19 amended: they differ by at most 1 when stickyEndPoint >= stickyStartPoint.
C19_NoJumpWhenLockable ==
  ( /\ variant = "box"
    /\ hasStartedExpanding
    /\ cfg.minHeight <= cfg.maxHeight
    /\ stickyEndPoint(cfg, offsetTop, offsetHeight, expansionStartScrollY)
         >= stickyStartPoint(cfg, offsetTop) )
    => boxStepsByOne

\* handleScroll wrote the locked height at scrollY = stickyStartPoint, one
\* above the growth height of the offset before it.
C19_Witness ==
  /\ variant = "box"
  /\ wrote = "scroll"
  /\ scrollY = stickyStartPoint(cfg, offsetTop)
  /\ stickyEndPoint(cfg, offsetTop, offsetHeight, expansionStartScrollY) > scrollY
  /\ height = finalStickyHeight(cfg, offsetTop, expansionStartScrollY)
  /\ height > cfg.minHeight
  /\ boxHeightAt(scrollY - 1) = height - 1

====
